---- MODULE Spec2Model ----
(***************************************************************************)
(* Conway's Game of Life (src/conway.py): the Grid class with its wrapped  *)
(* item access, step, add_pattern and round_out, driven by a caller that   *)
(* constructs a grid, writes cells and patterns to it, and steps it.       *)
(*                                                                         *)
(* Python objects are modelled with a small heap: a Grid object lives in a *)
(* slot, its data field is a list of references to row lists, and the row  *)
(* lists live in `rows`.  Aliasing between a grid and its copy is therefore *)
(* something the model can express (and a shallow copy can get wrong).     *)
(***************************************************************************)
EXTENDS Integers, Sequences, FiniteSets, TLC

VARIABLES
    heap,    \* slot -> Grid object: [width, height, data, generation]
    rows,    \* row reference -> list of cells
    grid,    \* the caller's current grid (a slot), 0 before construction
    old,     \* the grid the caller retained from before the last step, or 0
    nxt,     \* step's local `next` (a slot), 0 outside step
    i,       \* step's outer loop variable
    j,       \* step's inner loop variable
    pc,      \* "start" | "ready" | "step" | "crashed"
    err,     \* the uncaught exception that ended the program, or "none"
    writes,  \* number of set/stamp calls made so far
    nsteps,  \* number of completed step calls
    call     \* the caller's most recent call: [op, x, y, val, pat]

vars == <<heap, rows, grid, old, nxt, i, j, pc, err, writes, nsteps, call>>

----------------------------------------------------------------------------
\* Bounds of the model.

MaxDim == 3       \* largest width / height the caller asks for
MaxCells == 9     \* largest number of cells of a grid
MaxWrites == 3    \* set/stamp calls while the caller seeds the grid
MaxGen == 2       \* step calls per run
MaxRunGen == 6    \* step calls per run of the fixed 5x5 scenarios
MaxRenderGen == 10 \* step calls per run of the print scenario
MaxMantissa == 12  \* largest |m| of the numbers m / 10^e given to round_out
MaxExponent == 12  \* largest e of the numbers m / 10^e given to round_out

\* The grid of the block and blinker scenarios.
ScenarioDims == <<5, 5>>

----------------------------------------------------------------------------
\* Module constants of conway.py.  A text is the sequence of its characters.

LIGHT == "u2591"
DARK == "u2593"
BLOCKCHAR == "u2588"

EMPTY == <<LIGHT, LIGHT>>
FILLED == <<DARK, DARK>>
WALL == <<BLOCKCHAR>>

PATTERN_GLIDER == <<<<2, 2>>, <<2, 1>>, <<2, 0>>, <<1, 0>>, <<0, 1>>>>
PATTERN_LWSS == <<<<1, 0>>, <<4, 0>>, <<0, 1>>, <<0, 2>>, <<4, 2>>, <<0, 3>>,
                  <<1, 3>>, <<2, 3>>, <<3, 3>>>>
PATTERN_ACORN == <<<<1, 0>>, <<3, 1>>, <<0, 2>>, <<1, 2>>, <<4, 2>>, <<5, 2>>,
                   <<6, 2>>>>
PATTERN_BLOCK == <<<<0, 0>>, <<1, 0>>, <<0, 1>>, <<1, 1>>>>
PATTERN_QUEEN == <<<<4, 0>>, <<2, 1>>, <<4, 1>>, <<1, 2>>, <<3, 2>>, <<0, 3>>,
                   <<3, 3>>, <<1, 4>>, <<3, 4>>, <<2, 5>>, <<4, 5>>, <<4, 6>>>>

Patterns == {PATTERN_GLIDER, PATTERN_LWSS, PATTERN_ACORN, PATTERN_BLOCK,
             PATTERN_QUEEN}

----------------------------------------------------------------------------
\* Results of operations that may raise: err is "none" or the exception.

Ok(v) == [err |-> "none", val |-> v]
Fail(e, v) == [err |-> e, val |-> v]

\* Python's integer %: the result has the sign of the divisor.
PyMod(a, b) ==
    IF b > 0 THEN a % b
    ELSE IF b < 0 THEN -((-a) % (-b))
    ELSE 0

\* Python's list index: position (1-based) of index k in a list of length
\* n, negative indices counting from the end.
PyPos(n, k) ==
    IF 0 <= k /\ k < n THEN Ok(k + 1)
    ELSE IF k < 0 /\ -k <= n THEN Ok(n + k + 1)
    ELSE Fail("IndexError", 0)

----------------------------------------------------------------------------
\* Floats, as far as step needs them: [m, e] stands for m / 10^e.

Pow10(k) == 10 ^ k

Flt(m, e) == [m |-> m, e |-> e]

\* cos(n * pi / 4) and sin(n * pi / 4) for n = 0..7 as IEEE doubles compute
\* them, cut to the digits shown: the quarter turns are not exactly 0.
COS(n) ==
    CASE n = 0 -> Flt(1, 0)
      [] n = 1 -> Flt(707106781, 9)
      [] n = 2 -> Flt(612, 19)
      [] n = 3 -> Flt(-707106781, 9)
      [] n = 4 -> Flt(-1, 0)
      [] n = 5 -> Flt(-707106781, 9)
      [] n = 6 -> Flt(-1836, 19)
      [] n = 7 -> Flt(707106781, 9)

SIN(n) ==
    CASE n = 0 -> Flt(0, 0)
      [] n = 1 -> Flt(707106781, 9)
      [] n = 2 -> Flt(1, 0)
      [] n = 3 -> Flt(707106781, 9)
      [] n = 4 -> Flt(1224, 19)
      [] n = 5 -> Flt(-707106781, 9)
      [] n = 6 -> Flt(-1, 0)
      [] n = 7 -> Flt(-707106781, 9)

FltAbs(f) == Flt(IF f.m < 0 THEN -f.m ELSE f.m, f.e)

\* f < 10^-k, for f >= 0
FltBelowPow10(f, k) ==
    IF f.e >= k THEN f.m < Pow10(f.e - k) ELSE f.m = 0

\* ceil(f), for f >= 0
FltCeil(f) ==
    IF f.e <= 9 THEN (f.m + Pow10(f.e) - 1) \div Pow10(f.e)
    ELSE IF f.m = 0 THEN 0 ELSE 1

\* int(n / abs(n)), for n # 0
FltSign(f) == IF f.m < 0 THEN -1 ELSE 1

TinyExp == 10

\* Rounding toward zero, as int(n) does.
round_toward_zero(n) ==
    IF n.e <= 9 THEN FltSign(n) * (FltAbs(n).m \div Pow10(n.e)) ELSE 0

\* round_out without the line that takes tiny numbers for 0.
round_out_exact(n) ==
    IF n.m # 0 THEN FltCeil(FltAbs(n)) * FltSign(n) ELSE 0

round_out(n) ==
    LET n1 == IF FltBelowPow10(FltAbs(n), TinyExp) THEN Flt(0, 0) ELSE n
    IN  IF n1.m # 0 THEN FltCeil(FltAbs(n1)) * FltSign(n1) ELSE 0

\* The offsets step adds to (i, j) for n in range(8).
Offset(n) == <<round_out(COS(n)), round_out(SIN(n))>>
Offsets == [n \in 0..7 |-> Offset(n)]

----------------------------------------------------------------------------
\* The heap.

Slots == 1..2
Other(s) == 3 - s
MaxRows == IF MaxDim > ScenarioDims[2] THEN MaxDim ELSE ScenarioDims[2]
RowRefs == Slots \X (1..MaxRows)

NullGrid == [width |-> 0, height |-> 0, data |-> <<>>, generation |-> 0]

Max0(n) == IF n > 0 THEN n ELSE 0

\* The cell array built with the axes mixed up: width rows of height cells.
GridInitTransposed(s, width, height) ==
    [obj |-> [width |-> width, height |-> height,
              data |-> [r \in 1..Max0(width) |-> <<s, r>>],
              generation |-> 0],
     rows |-> [ref \in RowRefs |->
                 IF ref[1] = s
                 THEN IF ref[2] <= Max0(width)
                      THEN [c \in 1..Max0(height) |-> EMPTY]
                      ELSE <<>>
                 ELSE rows[ref]]]

\* Grid.__init__ into slot s: [[EMPTY]*width for x in range(height)].
\* A non-positive count gives an empty list; nothing is validated.
GridInit(s, width, height) ==
    [obj |-> [width |-> width, height |-> height,
              data |-> [r \in 1..Max0(height) |-> <<s, r>>],
              generation |-> 0],
     rows |-> [ref \in RowRefs |->
                 IF ref[1] = s
                 THEN IF ref[2] <= Max0(height)
                      THEN [c \in 1..Max0(width) |-> EMPTY]
                      ELSE <<>>
                 ELSE rows[ref]]]

\* The two axes mixed up: x wrapped by the height, y by the width.
WrapSwapped(g, x, y) ==
    IF g.width = 0 \/ g.height = 0 THEN Fail("ZeroDivisionError", <<0, 0>>)
    ELSE Ok(<<PyMod(x, g.height), PyMod(y, g.width)>>)

\* No wrapping: the coordinates are used as list indices as they come.
WrapNone(g, x, y) == Ok(<<x, y>>)

\* Coordinates held at the edges instead of wrapped around them.
WrapClamped(g, x, y) ==
    Ok(<<IF x < 0 THEN 0 ELSE IF x >= g.width THEN Max0(g.width - 1) ELSE x,
         IF y < 0 THEN 0 ELSE IF y >= g.height THEN Max0(g.height - 1) ELSE y>>)

\* The normalised coordinate of __getitem__ / __setitem__.
Wrap(g, x, y) ==
    IF g.width = 0 \/ g.height = 0 THEN Fail("ZeroDivisionError", <<0, 0>>)
    ELSE Ok(<<PyMod(x, g.width), PyMod(y, g.height)>>)

\* Grid.__getitem__ on object g with the row lists rs.
GetItem(rs, g, x, y) ==
    LET t == Wrap(g, x, y) IN
    IF t.err # "none" THEN Fail(t.err, EMPTY)
    ELSE LET rp == PyPos(Len(g.data), t.val[2]) IN
         IF rp.err # "none" THEN Fail(rp.err, EMPTY)
         ELSE LET row == rs[g.data[rp.val]]
                  cp == PyPos(Len(row), t.val[1])
              IN  IF cp.err # "none" THEN Fail(cp.err, EMPTY)
                  ELSE Ok(row[cp.val])

\* Grid.__setitem__: the row lists after the call.
SetItem(rs, g, x, y, value) ==
    LET t == Wrap(g, x, y) IN
    IF t.err # "none" THEN Fail(t.err, rs)
    ELSE LET rp == PyPos(Len(g.data), t.val[2]) IN
         IF rp.err # "none" THEN Fail(rp.err, rs)
         ELSE LET ref == g.data[rp.val]
                  cp == PyPos(Len(rs[ref]), t.val[1])
              IN  IF cp.err # "none" THEN Fail(cp.err, rs)
                  ELSE Ok([rs EXCEPT ![ref][cp.val] = value])

\* A stamp that flips the cells it visits instead of filling them.
RECURSIVE AddPatternToggleFrom(_, _, _, _, _, _)
AddPatternToggleFrom(rs, g, pattern, x, y, k) ==
    IF k > Len(pattern) THEN Ok(rs)
    ELSE LET tx == x + pattern[k][1]
             ty == y + pattern[k][2]
             c == GetItem(rs, g, tx, ty)
             r == SetItem(rs, g, tx, ty,
                          IF c.val = FILLED THEN EMPTY ELSE FILLED)
         IN  IF r.err # "none" THEN r
             ELSE AddPatternToggleFrom(r.val, g, pattern, x, y, k + 1)

\* add_pattern, from the k-th offset of the pattern on.
RECURSIVE AddPatternFrom(_, _, _, _, _, _)
AddPatternFrom(rs, g, pattern, x, y, k) ==
    IF k > Len(pattern) THEN Ok(rs)
    ELSE LET r == SetItem(rs, g, x + pattern[k][1], y + pattern[k][2], FILLED)
         IN  IF r.err # "none" THEN r
             ELSE AddPatternFrom(r.val, g, pattern, x, y, k + 1)

\* A stamp that takes each offset as (dy, dx).
add_pattern_transposed(rs, g, pattern, x, y) ==
    AddPatternFrom(rs, g, [k \in 1..Len(pattern) |->
                             <<pattern[k][2], pattern[k][1]>>], x, y, 1)

add_pattern(rs, g, pattern, x, y) == AddPatternFrom(rs, g, pattern, x, y, 1)

----------------------------------------------------------------------------
\* Grid.__str__.  A text is the sequence of its characters.

LF == "\n"
DIGITS == <<"0", "1", "2", "3", "4", "5", "6", "7", "8", "9">>
FOOTER == <<" ", " ", "G", "E", "N", "E", "R", "A", "T", "I", "O", "N", ":",
            " ">>

\* Python's text * n: n copies, none for n <= 0.
Repeat(text, n) ==
    [k \in 1..(Len(text) * Max0(n)) |-> text[((k - 1) % Len(text)) + 1]]

\* str(n) of an integer.
RECURSIVE IntStr(_)
IntStr(n) ==
    IF n < 0 THEN <<"-">> \o IntStr(-n)
    ELSE IF n < 10 THEN <<DIGITS[n + 1]>>
    ELSE IntStr(n \div 10) \o <<DIGITS[(n % 10) + 1]>>

\* The inner loop of __str__: str(item) of the items from the k-th on.
RECURSIVE StrItems(_, _)
StrItems(row, k) ==
    IF k > Len(row) THEN <<>> ELSE row[k] \o StrItems(row, k + 1)

\* The outer loop of __str__: the lines of the rows from the k-th on.
RECURSIVE StrRows(_, _, _)
StrRows(rs, g, k) ==
    IF k > Len(g.data) THEN <<>>
    ELSE Repeat(WALL, 2) \o StrItems(rs[g.data[k]], 1) \o Repeat(WALL, 2)
           \o <<LF>> \o StrRows(rs, g, k + 1)

\* __str__ with the border as wide as the number of cells, not of
\* characters.
StrNarrowBorder(rs, g) ==
    Repeat(WALL, g.width + 4) \o <<LF>> \o StrRows(rs, g, 1)
        \o Repeat(WALL, g.width + 4)
        \o <<LF, LF>> \o FOOTER \o IntStr(g.generation)

Str(rs, g) ==
    Repeat(WALL, g.width * Len(EMPTY) + 4) \o <<LF>> \o StrRows(rs, g, 1)
        \o Repeat(WALL, g.width * Len(EMPTY) + 4)
        \o <<LF, LF>> \o FOOTER \o IntStr(g.generation)

\* copy(grid) instead of deepcopy(grid): a new object, the same row lists.
ShallowCopy(hp, rs, src, dst) ==
    [obj |-> hp[src],
     rows |-> [ref \in RowRefs |-> IF ref[1] = dst THEN <<>> ELSE rs[ref]]]

\* deepcopy(grid) into slot dst: a new object whose rows are new lists.
DeepCopy(hp, rs, src, dst) ==
    [obj |-> [hp[src] EXCEPT !.data = [r \in 1..Len(hp[src].data) |-> <<dst, r>>]],
     rows |-> [ref \in RowRefs |->
                 IF ref[1] = dst
                 THEN IF ref[2] <= Len(hp[src].data)
                      THEN rs[hp[src].data[ref[2]]]
                      ELSE <<>>
                 ELSE rs[ref]]]

\* The increment left out.
SameGeneration(n) == n

\* next.generation += 1
NextGeneration(n) == n + 1

----------------------------------------------------------------------------
\* step, one cell at a time.

\* step updating in place: the cells are read from the copy being written.
StepSourceInPlace == nxt

\* The grid step reads cells from.
StepSource == grid

\* A count per distinct cell: a Filled cell that several of the offsets
\* n..7 wrap onto is counted once.
CountDistinctFrom(rs, g, ci, cj, n, acc) ==
    Ok(acc + Cardinality({t \in {Wrap(g, ci + Offsets[k][1],
                                       cj + Offsets[k][2]).val : k \in n..7} :
                            GetItem(rs, g, t[1], t[2]).val = FILLED}))

\* The loop over n of step: the number of the offsets n..7 from (ci, cj)
\* whose cell reads FILLED, added to acc.
RECURSIVE CountFrom(_, _, _, _, _, _)
CountFrom(rs, g, ci, cj, n, acc) ==
    IF n >= 8 THEN Ok(acc)
    ELSE LET c == GetItem(rs, g, ci + Offsets[n][1], cj + Offsets[n][2])
         IN  IF c.err # "none" THEN Fail(c.err, acc)
             ELSE CountFrom(rs, g, ci, cj, n + 1,
                            IF c.val = FILLED THEN acc + 1 ELSE acc)

\* A count that leaves out the offsets that wrap onto the cell itself.
NeighboursExcludingSelf(rs, g, ci, cj) ==
    Ok(Cardinality({n \in 0..7 :
        LET t == Wrap(g, ci + Offsets[n][1], cj + Offsets[n][2]) IN
        /\ t.val # Wrap(g, ci, cj).val
        /\ GetItem(rs, g, ci + Offsets[n][1], cj + Offsets[n][2]).val = FILLED}))

Neighbours(rs, g, ci, cj) == CountFrom(rs, g, ci, cj, 0, 0)

\* Rule with cells born in an empty neighbourhood.
RuleBirthFromNone(cell, neighbours) ==
    IF cell = FILLED
    THEN IF ~(1 < neighbours /\ neighbours < 4) THEN "EMPTY" ELSE "keep"
    ELSE IF neighbours = 3 \/ neighbours = 0 THEN "FILLED" ELSE "keep"

\* Rule with the lower limit of survival off by one.
RuleDiesOnTwo(cell, neighbours) ==
    IF cell = FILLED
    THEN IF ~(2 < neighbours /\ neighbours < 4) THEN "EMPTY" ELSE "keep"
    ELSE IF neighbours = 3 THEN "FILLED" ELSE "keep"

\* Rule with the upper limit of survival off by one.
RuleSurvivesFour(cell, neighbours) ==
    IF cell = FILLED
    THEN IF ~(1 < neighbours /\ neighbours <= 4) THEN "EMPTY" ELSE "keep"
    ELSE IF neighbours = 3 THEN "FILLED" ELSE "keep"

\* What step writes to next[i, j] for a cell with that many neighbours:
\* "EMPTY", "FILLED", or "keep" when it writes nothing.
Rule(cell, neighbours) ==
    IF cell = FILLED
    THEN IF ~(1 < neighbours /\ neighbours < 4) THEN "EMPTY" ELSE "keep"
    ELSE IF neighbours = 3 THEN "FILLED" ELSE "keep"

\* The body of step's loops for cell (ci, cj), reading the grid object src
\* and writing the grid object dst: the row lists afterwards.
StepCellInto(rs, src, dst, ci, cj) ==
    LET nb == Neighbours(rs, src, ci, cj)
        me == GetItem(rs, src, ci, cj)
    IN  IF nb.err # "none" THEN Fail(nb.err, rs)
        ELSE IF me.err # "none" THEN Fail(me.err, rs)
        ELSE LET w == Rule(me.val, nb.val) IN
             IF w = "EMPTY" THEN SetItem(rs, dst, ci, cj, EMPTY)
             ELSE IF w = "FILLED" THEN SetItem(rs, dst, ci, cj, FILLED)
             ELSE Ok(rs)

\* The body of step's loops for cell (ci, cj) of the call in progress.
StepCellRows(rs, ci, cj) ==
    StepCellInto(rs, heap[StepSource], heap[nxt], ci, cj)

\* step's loops from cell (ci, cj) on, as one computation.
RECURSIVE StepLoop(_, _, _, _, _)
StepLoop(rs, src, dst, ci, cj) ==
    IF ci >= src.width \/ src.height <= 0 THEN Ok(rs)
    ELSE LET r == StepCellInto(rs, src, dst, ci, cj) IN
         IF r.err # "none" THEN r
         ELSE IF cj + 1 < src.height
              THEN StepLoop(r.val, src, dst, ci, cj + 1)
              ELSE StepLoop(r.val, src, dst, ci + 1, 0)

\* step(grid) as a function: the grid in slot s of the heap (hp, rs) is
\* stepped into the other slot.  The heap afterwards and the slot returned.
step(hp, rs, s) ==
    LET dst == Other(s)
        c == DeepCopy(hp, rs, s, dst)
        obj == [c.obj EXCEPT !.generation = NextGeneration(@)]
        r == StepLoop(c.rows, hp[s], obj, 0, 0)
    IN  [err |-> r.err, hp |-> [hp EXCEPT ![dst] = obj], rs |-> r.val,
         s |-> dst]

LoopDone == i >= heap[grid].width \/ heap[grid].height <= 0

----------------------------------------------------------------------------
\* The caller.

DimInputs == (-1)..MaxDim
GridInputs == {d \in DimInputs \X DimInputs : d[1] * d[2] <= MaxCells}
CoordInputs == (-1)..MaxDim
SeedInputs == 0..(MaxDim - 1)
CellInputs == {EMPTY, FILLED}

\* The record of a call: its name, and where a specification follows the
\* arguments, the coordinates or anchor, the cell value and the pattern.
CallRecord(op, x, y, val, pat) ==
    [op |-> op, x |-> x, y |-> y, val |-> val, pat |-> pat]
Called(op) == CallRecord(op, 0, 0, EMPTY, <<>>)
CalledAt(op, x, y) == CallRecord(op, x, y, EMPTY, <<>>)

Init ==
    /\ heap = [s \in Slots |-> NullGrid]
    /\ rows = [ref \in RowRefs |-> <<>>]
    /\ grid = 0
    /\ old = 0
    /\ nxt = 0
    /\ i = 0
    /\ j = 0
    /\ pc = "start"
    /\ err = "none"
    /\ writes = 0
    /\ nsteps = 0
    /\ call = Called("none")

\* Raise: the exception is not caught anywhere, the program ends.
Crash(e) ==
    /\ pc' = "crashed"
    /\ err' = e

\* grid = Grid(width, height)
NewGrid(width, height) ==
    /\ pc = "start"
    /\ LET n == GridInit(1, width, height) IN
        /\ heap' = [heap EXCEPT ![1] = n.obj]
        /\ rows' = n.rows
    /\ grid' = 1
    /\ pc' = "ready"
    /\ UNCHANGED <<old, nxt, i, j, err, writes, nsteps>>

\* The caller seeds the grid before the first step, as __main__ does.
Seeding == pc = "ready" /\ nsteps = 0

\* grid[x, y] = value
Set(x, y, value) ==
    /\ Seeding
    /\ LET r == SetItem(rows, heap[grid], x, y, value) IN
        /\ rows' = r.val
        /\ IF r.err = "none" THEN UNCHANGED <<pc, err>> ELSE Crash(r.err)
    /\ writes' = writes + 1
    /\ UNCHANGED <<heap, grid, old, nxt, i, j, nsteps>>

\* grid[x, y]: the caller looks at a cell while seeding
Get(x, y) ==
    /\ Seeding
    /\ LET r == GetItem(rows, heap[grid], x, y) IN
        /\ IF r.err = "none" THEN UNCHANGED <<pc, err>> ELSE Crash(r.err)
        /\ call' = CallRecord("get", x, y, r.val, <<>>)
    /\ UNCHANGED <<heap, rows, grid, old, nxt, i, j, writes, nsteps>>

\* add_pattern(grid, pattern, x, y)
Stamp(pattern, x, y) ==
    /\ Seeding
    /\ LET r == add_pattern(rows, heap[grid], pattern, x, y) IN
        /\ rows' = r.val
        /\ IF r.err = "none" THEN UNCHANGED <<pc, err>> ELSE Crash(r.err)
    /\ writes' = writes + 1
    /\ UNCHANGED <<heap, grid, old, nxt, i, j, nsteps>>

\* print(grid): str(grid), as the main loop does before each step
Render ==
    /\ pc = "ready"
    /\ call' = CallRecord("render", 0, 0, Str(rows, heap[grid]), <<>>)
    /\ UNCHANGED <<heap, rows, grid, old, nxt, i, j, pc, err, writes, nsteps>>

\* step(grid), lines 65-66: the copy and its generation.  The copy takes
\* the slot of the grid the caller held from before the previous step.
StepBegin(bound) ==
    /\ pc = "ready"
    /\ heap[grid].generation < bound
    /\ LET dst == Other(grid)
           c == DeepCopy(heap, rows, grid, dst)
       IN  /\ heap' = [heap EXCEPT ![dst] =
                         [c.obj EXCEPT !.generation = NextGeneration(@)]]
           /\ rows' = c.rows
           /\ nxt' = dst
    /\ old' = 0
    /\ i' = 0
    /\ j' = 0
    /\ pc' = "step"
    /\ UNCHANGED <<grid, err, writes, nsteps>>

\* step(grid), lines 69-79 for the cell (i, j), and the loops' advance
StepCell ==
    /\ pc = "step"
    /\ ~LoopDone
    /\ LET r == StepCellRows(rows, i, j) IN
        /\ rows' = r.val
        /\ IF r.err = "none" THEN UNCHANGED <<pc, err>> ELSE Crash(r.err)
    /\ IF j + 1 < heap[grid].height
       THEN /\ j' = j + 1
            /\ i' = i
       ELSE /\ j' = 0
            /\ i' = i + 1
    /\ UNCHANGED <<heap, grid, old, nxt, writes, nsteps, call>>

\* step(grid), line 80, and the caller's grid = step(grid); the caller
\* keeps the input grid as `old` until the next step.
StepReturn ==
    /\ pc = "step"
    /\ LoopDone
    /\ grid' = nxt
    /\ old' = grid
    /\ nxt' = 0
    /\ i' = 0
    /\ j' = 0
    /\ pc' = "ready"
    /\ nsteps' = nsteps + 1
    /\ UNCHANGED <<heap, rows, err, writes, call>>

Next ==
    \/ \E d \in GridInputs :
         NewGrid(d[1], d[2]) /\ call' = Called("new")
    \/ \E x \in SeedInputs, y \in SeedInputs, v \in CellInputs :
         writes < MaxWrites /\ Set(x, y, v) /\ call' = Called("set")
    \/ \E p \in Patterns, x \in SeedInputs, y \in SeedInputs :
         writes < MaxWrites /\ Stamp(p, x, y) /\ call' = Called("stamp")
    \/ StepBegin(MaxGen) /\ call' = Called("step")
    \/ StepCell
    \/ StepReturn

Spec == Init /\ [][Next]_vars

----------------------------------------------------------------------------
\* The block scenario: a 5x5 grid, the block stamped once at any anchor,
\* then stepped.  The anchor stays recorded in `call`.

AnchorInputs == (-1)..ScenarioDims[1]

NextBlock ==
    \/ NewGrid(ScenarioDims[1], ScenarioDims[2]) /\ call' = Called("new")
    \/ \E x \in AnchorInputs, y \in AnchorInputs :
         /\ writes = 0
         /\ Stamp(PATTERN_BLOCK, x, y)
         /\ call' = CalledAt("stamp", x, y)
    \/ writes = 1 /\ StepBegin(MaxRunGen) /\ UNCHANGED call
    \/ StepCell
    \/ StepReturn

SpecBlock == Init /\ [][NextBlock]_vars

\* The blinker scenario: a 5x5 grid, the three cells set in any order,
\* then stepped.

BlinkerCells == {<<1, 2>>, <<2, 2>>, <<3, 2>>}
BlinkerTurned == {<<2, 1>>, <<2, 2>>, <<2, 3>>}

NextBlinker ==
    \/ NewGrid(ScenarioDims[1], ScenarioDims[2]) /\ call' = Called("new")
    \/ \E c \in BlinkerCells :
         /\ pc = "ready"
         /\ GetItem(rows, heap[grid], c[1], c[2]).val # FILLED
         /\ Set(c[1], c[2], FILLED)
         /\ call' = CalledAt("set", c[1], c[2])
    \/ writes = Cardinality(BlinkerCells) /\ StepBegin(MaxRunGen)
         /\ call' = Called("step")
    \/ StepCell
    \/ StepReturn

SpecBlinker == Init /\ [][NextBlinker]_vars

----------------------------------------------------------------------------
\* The access scenario: the caller constructs a grid, sets cells, and reads
\* one cell back.  `call` follows the arguments of the last set before the
\* read, and the arguments and result of the read.

NextAccess ==
    \/ \E d \in GridInputs :
         NewGrid(d[1], d[2]) /\ call' = Called("new")
    \/ \E x \in SeedInputs, y \in SeedInputs, v \in CellInputs :
         /\ writes < MaxWrites
         /\ call.op \in {"new", "seed"}
         /\ Set(x, y, v)
         /\ call' = Called("seed")
    \/ \E x \in CoordInputs, y \in CoordInputs, v \in CellInputs :
         /\ writes < MaxWrites
         /\ call.op \in {"new", "seed"}
         /\ Set(x, y, v)
         /\ call' = CallRecord("set", x, y, v, <<>>)
    \/ \E x \in CoordInputs, y \in CoordInputs :
         /\ call.op \in {"new", "seed", "set"}
         /\ Get(x, y)

SpecAccess == Init /\ [][NextAccess]_vars

\* The stamp scenario: the caller constructs a grid, may set cells, stamps
\* one pattern and then stamps it again with the same arguments.  `call`
\* follows the arguments of the stamp.

NextStamp ==
    \/ \E d \in GridInputs :
         NewGrid(d[1], d[2]) /\ call' = Called("new")
    \/ \E x \in CoordInputs, y \in CoordInputs, v \in CellInputs :
         /\ writes < MaxWrites
         /\ call.op \in {"new", "set"}
         /\ Set(x, y, v)
         /\ call' = Called("set")
    \/ \E p \in Patterns, x \in CoordInputs, y \in CoordInputs :
         /\ call.op \in {"new", "set"}
         /\ Stamp(p, x, y)
         /\ call' = CallRecord("stamp", x, y, EMPTY, p)
    \/ /\ call.op = "stamp"
       /\ Stamp(call.pat, call.x, call.y)
       /\ call' = [call EXCEPT !.op = "stamp2"]

SpecStamp == Init /\ [][NextStamp]_vars

\* The calls scenario: the caller constructs a grid, reads cells of it,
\* makes one write (a set or a stamp) at coordinates inside or outside the
\* grid, and then prints and steps it.  A call that has begun runs on: the
\* interpreter keeps executing step's loops until they end.

NextCalls ==
    \/ \E d \in GridInputs :
         NewGrid(d[1], d[2]) /\ call' = Called("new")
    \/ \E x \in CoordInputs, y \in CoordInputs :
         /\ call.op = "new"
         /\ Get(x, y)
    \/ \E x \in CoordInputs, y \in CoordInputs, v \in CellInputs :
         /\ writes = 0
         /\ Set(x, y, v)
         /\ call' = Called("set")
    \/ \E p \in Patterns, x \in CoordInputs, y \in CoordInputs :
         /\ writes = 0
         /\ Stamp(p, x, y)
         /\ call' = Called("stamp")
    \/ call.op # "render" /\ writes > 0 /\ Render
    \/ writes > 0 /\ StepBegin(MaxGen) /\ call' = Called("step")
    \/ StepCell
    \/ StepReturn

SpecCalls ==
    Init /\ [][NextCalls]_vars /\ WF_vars(StepCell) /\ WF_vars(StepReturn)

\* The print scenario: the main loop.  The caller constructs a grid, makes
\* one write, and then prints the grid and steps it, time after time.
\* `call` holds the text printed last.

NextRender ==
    \/ \E d \in GridInputs :
         NewGrid(d[1], d[2]) /\ call' = Called("new")
    \/ \E x \in SeedInputs, y \in SeedInputs :
         /\ writes = 0
         /\ Set(x, y, FILLED)
         /\ call' = Called("set")
    \/ \E p \in Patterns, x \in SeedInputs, y \in SeedInputs :
         /\ writes = 0
         /\ Stamp(p, x, y)
         /\ call' = Called("stamp")
    \/ call.op # "render" /\ Render
    \/ StepBegin(MaxRenderGen) /\ call' = Called("step")
    \/ StepCell
    \/ StepReturn

SpecRender == Init /\ [][NextRender]_vars

\* The rounding scenario: round_out is given a number m / 10^e, or step
\* computes its n-th offset.  `call` holds the argument (x = m, y = e, or
\* x = n) and the value returned.

MantissaInputs == (-MaxMantissa)..MaxMantissa
ExponentInputs == 0..MaxExponent

InitRound ==
    /\ heap = [s \in Slots |-> NullGrid]
    /\ rows = [ref \in RowRefs |-> <<>>]
    /\ grid = 0
    /\ old = 0
    /\ nxt = 0
    /\ i = 0
    /\ j = 0
    /\ pc = "start"
    /\ err = "none"
    /\ writes = 0
    /\ nsteps = 0
    /\ \E m \in MantissaInputs, e \in ExponentInputs :
         call = CallRecord("input", m, e, 0, <<>>)

\* round_out(n) for the number given
RoundOut ==
    /\ call.op = "input"
    /\ call' = [call EXCEPT !.op = "round_out",
                            !.val = round_out(Flt(call.x, call.y))]
    /\ UNCHANGED <<heap, rows, grid, old, nxt, i, j, pc, err, writes, nsteps>>

\* step, lines 70-72: the offsets of the n-th neighbour
StepOffset(n) ==
    /\ call.op = "input"
    /\ call' = CallRecord("offset", n, 0,
                          <<round_out(COS(n)), round_out(SIN(n))>>, <<>>)
    /\ UNCHANGED <<heap, rows, grid, old, nxt, i, j, pc, err, writes, nsteps>>

NextRound ==
    \/ RoundOut
    \/ \E n \in 0..7 : StepOffset(n)

SpecRound == InitRound /\ [][NextRound]_vars

----------------------------------------------------------------------------
\* What the claims speak of.

Valid(g) == g.width > 0 /\ g.height > 0

\* The cell of a valid grid at (x mod W, y mod H), read directly.
At(rs, g, x, y) == rs[g.data[(y % g.height) + 1]][(x % g.width) + 1]

CellsOf(g) == (0..(g.width - 1)) \X (0..(g.height - 1))

\* All a caller can observe of the grid in slot s.
ViewOf(hp, rs, s) ==
    [width |-> hp[s].width, height |-> hp[s].height,
     generation |-> hp[s].generation,
     cells |-> [c \in CellsOf(hp[s]) |->
                  IF Valid(hp[s]) THEN At(rs, hp[s], c[1], c[2]) ELSE EMPTY]]

\* The Moore neighbourhood, as the specification lists it.
MooreOffsets == {<<1, 0>>, <<1, 1>>, <<0, 1>>, <<-1, 1>>, <<-1, 0>>,
                 <<-1, -1>>, <<0, -1>>, <<1, -1>>}

\* The number of Moore offsets from (x, y) whose wrapped cell is Filled.
FilledAround(rs, g, x, y) ==
    Cardinality({d \in MooreOffsets : At(rs, g, x + d[1], y + d[2]) = FILLED})

\* The rule of Life for the cell (x, y) of g.
LivesOn(rs, g, x, y) ==
    \/ At(rs, g, x, y) = FILLED /\ FilledAround(rs, g, x, y) \in {2, 3}
    \/ At(rs, g, x, y) = EMPTY /\ FilledAround(rs, g, x, y) = 3

\* A step has returned and the caller holds its input and its result.
Stepped == pc = "ready" /\ old # 0 /\ Valid(heap[old])

\* C1: for every valid grid g and every cell (x, y), the cell of step(g) is
\* Filled exactly if g[x, y] is Filled with 2 or 3 Filled neighbours, or
\* Empty with exactly 3, the neighbours counted over the 8 wrapped Moore
\* offsets; every cell is Filled or Empty.
C1_StepAppliesRule ==
    Stepped =>
        \A c \in CellsOf(heap[old]) :
            /\ At(rows, heap[grid], c[1], c[2]) \in {EMPTY, FILLED}
            /\ At(rows, heap[grid], c[1], c[2]) = FILLED
                 <=> LivesOn(rows, heap[old], c[1], c[2])

\* C1's case: in one step a Filled cell with 2 or 3 Filled neighbours
\* stayed Filled and a Filled cell with 4 or more became Empty.
C1_Witness ==
    /\ Stepped
    /\ \E c \in CellsOf(heap[old]) :
         /\ At(rows, heap[old], c[1], c[2]) = FILLED
         /\ FilledAround(rows, heap[old], c[1], c[2]) \in {2, 3}
         /\ At(rows, heap[grid], c[1], c[2]) = FILLED
    /\ \E c \in CellsOf(heap[old]) :
         /\ At(rows, heap[old], c[1], c[2]) = FILLED
         /\ FilledAround(rows, heap[old], c[1], c[2]) >= 4
         /\ At(rows, heap[grid], c[1], c[2]) = EMPTY

\* C2 (input): from the call of step to its return, the input grid keeps
\* its cells, width, height and generation.
C2_StepFrame ==
    (pc = "step" \/ pc' = "step") =>
        ViewOf(heap', rows', grid) = ViewOf(heap, rows, grid)

\* C2 (storage): a set or a stamp on the returned grid, at any of its
\* cells, changes nothing of the input grid, and one on the input grid
\* nothing of the returned grid.
C2_Independent ==
    Stepped =>
        \A s \in {grid, old} :
            /\ \A c \in CellsOf(heap[s]), v \in CellInputs :
                 ViewOf(heap, SetItem(rows, heap[s], c[1], c[2], v).val,
                        Other(s)) = ViewOf(heap, rows, Other(s))
            /\ \A c \in CellsOf(heap[s]), p \in Patterns :
                 ViewOf(heap, add_pattern(rows, heap[s], p, c[1], c[2]).val,
                        Other(s)) = ViewOf(heap, rows, Other(s))

\* C2: step(g) never mutates its input, and the grid it returns has storage
\* of its own: later sets and stamps on either grid leave the other alone.
C2_StepLeavesInputAlone == [][C2_StepFrame]_vars /\ []C2_Independent

\* C2's case: a step returned a grid that differs from its input, which
\* the caller still holds.
C2_Witness ==
    /\ Stepped
    /\ ViewOf(heap, rows, grid).cells # ViewOf(heap, rows, old).cells
    /\ \E c \in CellsOf(heap[old]) : At(rows, heap[old], c[1], c[2]) = FILLED

\* The cell (x, y) has been visited by step's loops, which run x in the
\* outer and y in the inner loop.
Visited(x, y) == x < i \/ (x = i /\ y < j)

\* C3: while step visits the cells, the output grid holds the rule's result
\* (computed from the input grid alone) in every visited cell and the input's
\* value in every other cell, and the input grid is as it was; so the loops
\* end with the grid an atomic application of the rule gives.
C3_SimultaneousUpdate ==
    (pc = "step" /\ Valid(heap[grid])) =>
        \A c \in CellsOf(heap[grid]) :
            At(rows, heap[nxt], c[1], c[2]) =
                IF Visited(c[1], c[2])
                THEN IF LivesOn(rows, heap[grid], c[1], c[2])
                     THEN FILLED ELSE EMPTY
                ELSE At(rows, heap[grid], c[1], c[2])

\* C3's case: step is in the middle of its loops, has changed a visited cell
\* and has yet to visit a cell next to it.
C3_Witness ==
    /\ pc = "step"
    /\ Valid(heap[grid])
    /\ ~LoopDone
    /\ \E c \in CellsOf(heap[grid]), d \in MooreOffsets :
         /\ Visited(c[1], c[2])
         /\ At(rows, heap[nxt], c[1], c[2]) # At(rows, heap[grid], c[1], c[2])
         /\ ~Visited((c[1] + d[1]) % heap[grid].width,
                     (c[2] + d[2]) % heap[grid].height)

\* C4: a new grid has generation 0, each step call adds exactly 1 and no
\* other call changes it: after n steps the current grid's generation is
\* n, the retained input's is n - 1, and during a step the copy's is n + 1.
C4_GenerationCountsSteps ==
    /\ grid # 0 => heap[grid].generation = nsteps
    /\ old # 0 => heap[old].generation = nsteps - 1
    /\ pc = "step" => heap[nxt].generation = nsteps + 1

\* C4's case: a grid seeded by a write has been stepped twice.
C4_Witness ==
    /\ pc = "ready"
    /\ writes > 0
    /\ nsteps >= 2
    /\ heap[grid].generation = 2

\* C5 (state): on a valid grid, get succeeds for any integers x, y and
\* reads the cell at (x mod W, y mod H); get(x, y) = get(x + W, y) =
\* get(x, y + H), and get(-1, 0) = get(W - 1, 0).
WideCoords == (-(MaxDim + 1))..(2 * MaxDim)

C5_WrapInvariant ==
    (pc = "ready" /\ call.op # "get" /\ Valid(heap[grid])) =>
        LET g == heap[grid] IN
        /\ \A x \in WideCoords, y \in WideCoords :
             LET r == GetItem(rows, g, x, y) IN
             /\ r.err = "none"
             /\ r.val = At(rows, g, x, y)
             /\ GetItem(rows, g, x + g.width, y) = r
             /\ GetItem(rows, g, x, y + g.height) = r
        /\ GetItem(rows, g, -1, 0) = GetItem(rows, g, g.width - 1, 0)

\* C5 (calls): on a valid grid, set(x, y, s) succeeds and writes s to the
\* cell at (x mod W, y mod H) and to no other; get returns that cell and
\* changes nothing; a get right after set(x, y, s) at any (x', y') with the
\* same residues returns s.
C5_Calls ==
    (grid # 0 /\ Valid(heap[grid])) =>
        LET g == heap[grid] IN
        /\ (call'.op = "set" /\ writes' = writes + 1) =>
             /\ pc' = "ready"
             /\ heap' = heap
             /\ \A c \in CellsOf(g) :
                  At(rows', g, c[1], c[2]) =
                      IF c = <<call'.x % g.width, call'.y % g.height>>
                      THEN call'.val
                      ELSE At(rows, g, c[1], c[2])
        /\ call'.op = "get" =>
             /\ pc' = "ready"
             /\ heap' = heap /\ rows' = rows
             /\ call'.val = At(rows, g, call'.x, call'.y)
        /\ (call.op = "set" /\ call'.op = "get"
              /\ call'.x % g.width = call.x % g.width
              /\ call'.y % g.height = call.y % g.height) =>
             call'.val = call.val

\* C5: wraparound correctness of get and set.
C5_Wraparound == []C5_WrapInvariant /\ [][C5_Calls]_vars

\* C5's case: after sets, a get at x = -1 on a grid at least 2 wide read a
\* Filled cell, the one in the last column.
C5_Witness ==
    /\ pc = "ready"
    /\ call.op = "get"
    /\ call.x = -1
    /\ call.val = FILLED
    /\ heap[grid].width >= 2
    /\ heap[grid].height >= 2
    /\ At(rows, heap[grid], heap[grid].width - 1, call.y) = FILLED

\* C6: constructing a Grid with a width or height <= 0 fails and yields no
\* grid, so every grid the caller holds has a positive width and height.
C6_NonPositiveDimensionsRejected == grid # 0 => Valid(heap[grid])

\* The cells a stamp of the pattern at anchor (x, y) addresses in g.
Targets(g, pattern, x, y) ==
    {<<(x + pattern[k][1]) % g.width, (y + pattern[k][2]) % g.height>> :
       k \in 1..Len(pattern)}

\* C7: a stamp on a valid grid succeeds; afterwards every cell at
\* ((x + dx) mod W, (y + dy) mod H) for an offset of the pattern is Filled
\* and every other cell, the generation, the width and the height are as
\* before; no Filled cell turns Empty.
C7_StampStep ==
    (call'.op \in {"stamp", "stamp2"} /\ writes' = writes + 1
       /\ Valid(heap[grid])) =>
        LET g == heap[grid] IN
        /\ pc' = "ready"
        /\ heap' = heap
        /\ grid' = grid
        /\ \A c \in CellsOf(g) :
             /\ At(rows', g, c[1], c[2]) =
                  IF c \in Targets(g, call'.pat, call'.x, call'.y)
                  THEN FILLED
                  ELSE At(rows, g, c[1], c[2])
             /\ At(rows, g, c[1], c[2]) = FILLED
                  => At(rows', g, c[1], c[2]) = FILLED

C7_StampFillsTargetsOnly == [][C7_StampStep]_vars

\* C7's case: a pattern with at least as many offsets as the grid has cells
\* was stamped at an anchor left of and below the grid, on which a cell had
\* been set: that cell, outside the pattern, is still Filled, and a cell is
\* still Empty.
C7_Witness ==
    /\ pc = "ready"
    /\ call.op = "stamp"
    /\ Valid(heap[grid])
    /\ call.x = -1
    /\ call.y >= heap[grid].height
    /\ Len(call.pat) >= heap[grid].width * heap[grid].height
    /\ \E c \in CellsOf(heap[grid]) : At(rows, heap[grid], c[1], c[2]) = EMPTY
    /\ \E c \in CellsOf(heap[grid]) :
         /\ At(rows, heap[grid], c[1], c[2]) = FILLED
         /\ c \notin Targets(heap[grid], call.pat, call.x, call.y)

\* C8: stamping again with the same pattern and anchor leaves the grid as
\* the first stamp left it: cells, generation and dimensions.
C8_SecondStampStep ==
    call'.op = "stamp2" =>
        /\ ViewOf(heap', rows', grid') = ViewOf(heap, rows, grid)
        /\ pc' = pc

C8_StampIdempotent == [][C8_SecondStampStep]_vars

\* C8's case: a pattern was stamped twice with the same arguments on a valid
\* grid that holds Filled and Empty cells.
C8_Witness ==
    /\ pc = "ready"
    /\ call.op = "stamp2"
    /\ Valid(heap[grid])
    /\ \E c \in CellsOf(heap[grid]) : At(rows, heap[grid], c[1], c[2]) = EMPTY
    /\ \E c \in CellsOf(heap[grid]) : At(rows, heap[grid], c[1], c[2]) = FILLED

FilledSet(rs, g) == {c \in CellsOf(g) : At(rs, g, c[1], c[2]) = FILLED}

\* C9: on the 5x5 grid seeded with the block at any anchor, after any
\* number of steps the Filled cells are the four cells of the initial block;
\* the dimensions stay and the generation is the number of steps.
C9_BlockStill ==
    (pc = "ready" /\ call.op = "stamp") =>
        /\ FilledSet(rows, heap[grid]) =
             Targets(heap[grid], PATTERN_BLOCK, call.x, call.y)
        /\ Cardinality(FilledSet(rows, heap[grid])) = 4
        /\ heap[grid].width = ScenarioDims[1]
        /\ heap[grid].height = ScenarioDims[2]
        /\ heap[grid].generation = nsteps

\* C9's case: the block stamped across the right and bottom edges has been
\* stepped as often as the run allows.
C9_Witness ==
    /\ pc = "ready"
    /\ call.op = "stamp"
    /\ call.x = ScenarioDims[1] - 1
    /\ call.y = ScenarioDims[2] - 1
    /\ nsteps = MaxRunGen
    /\ <<0, 0>> \in FilledSet(rows, heap[grid])

\* C10: on the 5x5 grid seeded with (1,2),(2,2),(3,2), the Filled cells
\* after an odd number of steps are (2,1),(2,2),(2,3) and after an even
\* number the original three.
C10_BlinkerOscillates ==
    (pc = "ready" /\ writes = Cardinality(BlinkerCells)) =>
        FilledSet(rows, heap[grid]) =
            IF nsteps % 2 = 0 THEN BlinkerCells ELSE BlinkerTurned

\* C10's case: the blinker has been stepped three times and stands upright.
C10_Witness ==
    /\ pc = "ready"
    /\ nsteps = 3
    /\ heap[grid].generation = 3
    /\ FilledSet(rows, heap[grid]) = BlinkerTurned

\* A step has returned whose input was a 1x1 grid.
SteppedSingle ==
    Stepped /\ heap[old].width = 1 /\ heap[old].height = 1

\* C11: on a 1x1 grid step's neighbour count of the single cell is 8 when
\* the cell is Filled and 0 when it is Empty (all 8 offsets wrap onto the
\* cell itself), and the ordinary rule is applied to it: after one step the
\* cell is Empty, whether it was Filled or Empty.
C11_SingleCellCountsItself ==
    /\ (pc \in {"ready", "step"} /\ heap[grid].width = 1
            /\ heap[grid].height = 1) =>
          Neighbours(rows, heap[grid], 0, 0) =
              Ok(IF At(rows, heap[grid], 0, 0) = FILLED THEN 8 ELSE 0)
    /\ SteppedSingle => At(rows, heap[grid], 0, 0) = EMPTY

\* C11's case: a step of the 1x1 grid with its cell Filled has returned the
\* grid with the cell Empty.
C11_Witness ==
    /\ SteppedSingle
    /\ At(rows, heap[old], 0, 0) = FILLED
    /\ At(rows, heap[grid], 0, 0) = EMPTY
    /\ heap[grid].generation = heap[old].generation + 1

\* The cell array of the grid in slot s: height rows, each a list of its
\* own with width cells.
Shaped(s) ==
    /\ Len(heap[s].data) = heap[s].height
    /\ \A r \in 1..Len(heap[s].data) : Len(rows[heap[s].data[r]]) = heap[s].width
    /\ \A r, q \in 1..Len(heap[s].data) :
          heap[s].data[r] = heap[s].data[q] => r = q

\* C12: the cell array of every grid made with positive dimensions (the
\* caller's grid, the input it retained, and the copy a step is writing) has
\* exactly height rows of exactly width cells, and step's grid has the width
\* and height of its input.
C12_ShapeKept ==
    /\ \A s \in {grid, old, nxt} \ {0} : Valid(heap[s]) => Shaped(s)
    /\ pc = "step" =>
          /\ heap[nxt].width = heap[grid].width
          /\ heap[nxt].height = heap[grid].height
    /\ (pc = "ready" /\ old # 0) =>
          /\ heap[grid].width = heap[old].width
          /\ heap[grid].height = heap[old].height

\* C12's case: a grid that is not square was written to and stepped twice,
\* and the step changed cells.
C12_Witness ==
    /\ Stepped
    /\ heap[grid].width # heap[grid].height
    /\ heap[grid].width > 1
    /\ heap[grid].height > 1
    /\ writes > 1
    /\ nsteps = 2
    /\ ViewOf(heap, rows, grid).cells # ViewOf(heap, rows, old).cells

\* The cells step's loops have yet to visit.
Remaining ==
    IF LoopDone THEN 0
    ELSE (heap[grid].width - i) * heap[grid].height - j

\* C13 (errors): while the caller holds a grid with positive dimensions, no
\* call has raised, and between calls no get or set at any coordinates
\* would raise.
C13_NoError ==
    (grid # 0 /\ Valid(heap[grid])) =>
        /\ pc # "crashed"
        /\ err = "none"
        /\ pc = "ready" =>
              \A x \in WideCoords, y \in WideCoords :
                  /\ GetItem(rows, heap[grid], x, y).err = "none"
                  /\ SetItem(rows, heap[grid], x, y, FILLED).err = "none"

\* C13 (progress): every pass of step's loops on such a grid leaves fewer
\* cells to visit.
C13_LoopAdvances ==
    (pc = "step" /\ pc' = "step" /\ Valid(heap[grid])) =>
        (Remaining' < Remaining /\ Remaining' >= 0)

\* C13: given a grid with positive dimensions, no get, set, stamp, render or
\* step at any coordinates ends in an error, and every step that begins
\* returns.
C13_CallsAreTotal ==
    /\ []C13_NoError
    /\ [][C13_LoopAdvances]_vars
    /\ (pc = "step" /\ Valid(heap[grid])) ~> (pc = "ready")

\* C13's case: a grid stamped at an anchor left of and below it has been
\* stepped and printed, and nothing has raised.
C13_Witness ==
    /\ pc = "ready"
    /\ err = "none"
    /\ call.op = "render"
    /\ writes = 1
    /\ nsteps = MaxGen
    /\ heap[grid].width > 1
    /\ \E c \in CellsOf(heap[grid]) : At(rows, heap[grid], c[1], c[2]) = FILLED

\* The number a text of decimal digits stands for.
DigitOf(ch) == CHOOSE d \in 0..9 : DIGITS[d + 1] = ch

RECURSIVE DigitsValue(_)
DigitsValue(text) ==
    IF Len(text) = 0 THEN 0
    ELSE 10 * DigitsValue(SubSeq(text, 1, Len(text) - 1))
           + DigitOf(text[Len(text)])

\* C14 (format): the text printed for a W x H grid is H + 2 lines of
\* W*2 + 4 characters, each ended by a line feed: a line of wall characters,
\* the rows in order (2 wall characters, the 2-character glyph of each cell
\* in column order, 2 wall characters), a line of wall characters; then an
\* empty line and the footer with the generation in decimal.  The glyphs
\* of Empty and Filled differ.
C14_Format ==
    (call.op = "render" /\ Valid(heap[grid])) =>
        LET g == heap[grid]
            t == call.val
            L == g.width * 2 + 4
            Line(k) == SubSeq(t, (k - 1) * (L + 1) + 1, (k - 1) * (L + 1) + L)
            Body == (g.height + 2) * (L + 1)
            Digits == SubSeq(t, Body + 1 + Len(FOOTER) + 1, Len(t))
        IN  /\ EMPTY # FILLED
            /\ Len(t) > Body + 1 + Len(FOOTER)
            /\ Cardinality({k \in 1..Len(t) : t[k] = LF}) = g.height + 3
            /\ \A k \in 1..(g.height + 2) : t[k * (L + 1)] = LF
            /\ \A k \in {1, g.height + 2} :
                  \A c \in 1..L : Line(k)[c] = BLOCKCHAR
            /\ \A r \in 1..g.height :
                  /\ \A c \in {1, 2, L - 1, L} : Line(r + 1)[c] = BLOCKCHAR
                  /\ \A c \in 0..(g.width - 1) :
                        /\ SubSeq(Line(r + 1), 3 + 2 * c, 4 + 2 * c)
                              = At(rows, g, c, r - 1)
                        /\ At(rows, g, c, r - 1) \in {EMPTY, FILLED}
            /\ t[Body + 1] = LF
            /\ SubSeq(t, Body + 2, Body + 1 + Len(FOOTER)) = FOOTER
            /\ \A k \in 1..Len(Digits) :
                  \E d \in 1..Len(DIGITS) : Digits[k] = DIGITS[d]
            /\ Digits[1] = DIGITS[1] => Len(Digits) = 1
            /\ DigitsValue(Digits) = g.generation
            /\ Str(rows, g) = t

\* C14 (frame): printing changes no cell, dimension or generation.
C14_RenderFrame ==
    (call'.op = "render" /\ call.op # "render") =>
        /\ ViewOf(heap', rows', grid') = ViewOf(heap, rows, grid)
        /\ heap' = heap /\ rows' = rows /\ grid' = grid

\* C14: render returns the bordered text of the grid with the generation
\* in the footer, always the same text for the same grid, and changes
\* nothing.
C14_RenderText == []C14_Format /\ [][C14_RenderFrame]_vars

\* C14's case: a grid with Filled and Empty cells in one row was printed
\* after the run's last step, its generation a number of two digits.
C14_Witness ==
    /\ call.op = "render"
    /\ Valid(heap[grid])
    /\ heap[grid].generation = MaxRenderGen
    /\ heap[grid].generation >= 10
    /\ heap[grid].width > 1
    /\ heap[grid].height > 1
    /\ \E y \in 0..(heap[grid].height - 1) :
         /\ \E x \in 0..(heap[grid].width - 1) :
              At(rows, heap[grid], x, y) = FILLED
         /\ \E x \in 0..(heap[grid].width - 1) :
              At(rows, heap[grid], x, y) = EMPTY

\* The shifts a grid is moved by, in each direction.
ShiftInputs == {-1, 0, 1}

\* A heap whose slot 1 holds the grid g of (rs) with every cell moved by
\* (a, b) with wraparound: the cell at (x + a, y + b) is g's cell at (x, y).
Translated(rs, g, a, b) ==
    [hp |-> [s \in Slots |->
               IF s = 1
               THEN [g EXCEPT !.data = [r \in 1..g.height |-> <<1, r>>]]
               ELSE NullGrid],
     rs |-> [ref \in RowRefs |->
               IF ref[1] = 1 /\ ref[2] <= g.height
               THEN [c \in 1..g.width |->
                       At(rs, g, (c - 1) - a, (ref[2] - 1) - b)]
               ELSE <<>>],
     s |-> 1]

\* The cells of the grid in slot h.s of the heap h.
CellsIn(h) ==
    [c \in CellsOf(h.hp[h.s]) |-> At(h.rs, h.hp[h.s], c[1], c[2])]

\* The cells of the grid in slot h.s of the heap h, moved by (a, b).
CellsMoved(h, a, b) ==
    [c \in CellsOf(h.hp[h.s]) |->
       At(h.rs, h.hp[h.s], c[1] - a, c[2] - b)]

\* The heap h after n calls of step on the grid in its slot h.s.
RECURSIVE StepTimes(_, _)
StepTimes(h, n) ==
    IF n = 0 THEN h
    ELSE LET r == step(h.hp, h.rs, h.s)
         IN  StepTimes([hp |-> r.hp, rs |-> r.rs, s |-> r.s], n - 1)

\* The heap h after add_pattern on the grid in its slot h.s.
Stamped(h, pattern, x, y) ==
    [h EXCEPT !.rs = add_pattern(h.rs, h.hp[h.s], pattern, x, y).val]

\* C15 (step): for the input g and the result of every step made, and
\* every shift (a, b): step of g moved by (a, b) is the result moved by
\* (a, b), with the result's generation.
C15_StepCommutes ==
    Stepped =>
        \A a \in ShiftInputs, b \in ShiftInputs :
            LET r == step(Translated(rows, heap[old], a, b).hp,
                          Translated(rows, heap[old], a, b).rs, 1)
            IN  /\ r.err = "none"
                /\ CellsIn(r) =
                      CellsMoved([hp |-> heap, rs |-> rows, s |-> grid], a, b)
                /\ r.hp[r.s].generation = heap[grid].generation

\* C15 (stamp): on every new grid, for every pattern and shift (a, b):
\* stamping at (x + a, y + b) gives the cells of stamping at (x, y) moved by
\* (a, b), for every anchor (x, y); and stamping at (a, b) and stepping n
\* times gives the cells of stamping at (0, 0) and stepping n times, moved
\* by (a, b), for every n the run allows.
C15_StampCommutes ==
    (pc = "ready" /\ call.op = "new" /\ Valid(heap[grid])) =>
        LET h == [hp |-> heap, rs |-> rows, s |-> grid] IN
        \A p \in Patterns, a \in ShiftInputs, b \in ShiftInputs :
            /\ \A x \in SeedInputs, y \in SeedInputs :
                  CellsIn(Stamped(h, p, x + a, y + b)) =
                      CellsMoved(Stamped(h, p, x, y), a, b)
            /\ \A n \in 1..MaxGen :
                  CellsIn(StepTimes(Stamped(h, p, a, b), n)) =
                      CellsMoved(StepTimes(Stamped(h, p, 0, 0), n), a, b)

\* C15: step commutes with toroidal translation, and so does stamping a
\* pattern and stepping it.
C15_TranslationCommutes == [](C15_StepCommutes /\ C15_StampCommutes)

\* C15's case: a step changed a grid at least 3 wide and high whose cells
\* do not stay the same under the shift by one column, and left Filled
\* cells.
C15_Witness ==
    /\ Stepped
    /\ heap[old].width >= 3
    /\ heap[old].height >= 3
    /\ CellsIn([hp |-> heap, rs |-> rows, s |-> old]) #
          CellsMoved([hp |-> heap, rs |-> rows, s |-> old], 1, 0)
    /\ CellsIn([hp |-> heap, rs |-> rows, s |-> grid]) #
          CellsIn([hp |-> heap, rs |-> rows, s |-> old])
    /\ \E c \in CellsOf(heap[grid]) : At(rows, heap[grid], c[1], c[2]) = FILLED

\* Every cell of the grid in slot s is Empty.
AllEmpty(s) ==
    \A c \in CellsOf(heap[s]) : At(rows, heap[s], c[1], c[2]) = EMPTY

\* C16 (fixed point): a grid with positive dimensions that was never
\* written to has every cell Empty, when new and after every step, and so
\* has the copy a step is writing; its generation is the number of steps.
C16_EmptyStays ==
    (grid # 0 /\ Valid(heap[grid]) /\ writes = 0) =>
        /\ AllEmpty(grid)
        /\ pc = "step" => AllEmpty(nxt)
        /\ heap[grid].generation = nsteps

\* C16 (origin): a cell that is Filled in the caller's grid and was not
\* before got so by a set or stamp, or by a step whose input had the cell
\* Empty with exactly 3 Filled neighbours.
C16_FilledAppears ==
    (grid # 0 /\ Valid(heap[grid])) =>
        \A c \in CellsOf(heap[grid]) :
            (At(rows', heap'[grid'], c[1], c[2]) = FILLED
                /\ At(rows, heap[grid], c[1], c[2]) # FILLED) =>
              \/ writes' = writes + 1
              \/ /\ pc = "step" /\ pc' = "ready"
                 /\ At(rows, heap[grid], c[1], c[2]) = EMPTY
                 /\ FilledAround(rows, heap[grid], c[1], c[2]) = 3

\* C16: the all-Empty grid is a fixed point of step, and Filled cells come
\* only from set, stamp or birth next to three Filled neighbours.
C16_EmptyIsFixed == []C16_EmptyStays /\ [][C16_FilledAppears]_vars

\* C16's case: a new grid of the largest size was stepped as often as the
\* run allows without a write, and is all Empty.
C16_Witness ==
    /\ pc = "ready"
    /\ writes = 0
    /\ nsteps = MaxGen
    /\ heap[grid].width * heap[grid].height = MaxCells
    /\ heap[grid].generation = MaxGen
    /\ AllEmpty(grid)

\* The grid has fewer than 3 columns or fewer than 3 rows.
Small(g) == Valid(g) /\ (g.width < 3 \/ g.height < 3)

\* The number of the 8 Moore offsets that lead from cell c to cell d of g.
Reaches(g, c, d) ==
    Cardinality({o \in MooreOffsets :
        <<(c[1] + o[1]) % g.width, (c[2] + o[2]) % g.height>> = d})

\* The sum of Reaches(g, c, d) over the Filled cells d among `cells`.
RECURSIVE ReachSum(_, _, _, _)
ReachSum(rs, g, c, cells) ==
    IF cells = {} THEN 0
    ELSE LET d == CHOOSE e \in cells : TRUE IN
         (IF At(rs, g, d[1], d[2]) = FILLED THEN Reaches(g, c, d) ELSE 0)
           + ReachSum(rs, g, c, cells \ {d})

\* C17: on a grid less than 3 wide or high, the count step computes for a
\* cell is the sum over the Filled cells of the number of offsets that wrap
\* onto each (the cell itself included), a number from 0 to 8, and the step
\* applies the rule to that count; on the 2x2 grid with all cells Filled the
\* count is 8 for every cell and the step returns the grid all Empty.
C17_CountsPerOffset ==
    /\ (pc \in {"ready", "step"} /\ Small(heap[grid])) =>
          \A c \in CellsOf(heap[grid]) :
              LET nb == Neighbours(rows, heap[grid], c[1], c[2]) IN
              /\ nb.err = "none"
              /\ nb.val \in 0..8
              /\ nb.val = ReachSum(rows, heap[grid], c, CellsOf(heap[grid]))
              /\ (heap[grid].width = 2 /\ heap[grid].height = 2
                    /\ \A d \in CellsOf(heap[grid]) :
                          At(rows, heap[grid], d[1], d[2]) = FILLED)
                   => nb.val = 8
    /\ (Stepped /\ Small(heap[old])) =>
          \A c \in CellsOf(heap[old]) :
              LET k == ReachSum(rows, heap[old], c, CellsOf(heap[old])) IN
              At(rows, heap[grid], c[1], c[2]) =
                  IF \/ At(rows, heap[old], c[1], c[2]) = FILLED /\ k \in {2, 3}
                     \/ At(rows, heap[old], c[1], c[2]) = EMPTY /\ k = 3
                  THEN FILLED ELSE EMPTY

\* C17's case: the 2x2 grid with all four cells Filled was stepped and the
\* step returned it all Empty.
C17_Witness ==
    /\ Stepped
    /\ heap[old].width = 2
    /\ heap[old].height = 2
    /\ \A c \in CellsOf(heap[old]) : At(rows, heap[old], c[1], c[2]) = FILLED
    /\ AllEmpty(grid)

\* The offsets in the order the specification lists them.
MooreInOrder == <<<<1, 0>>, <<1, 1>>, <<0, 1>>, <<-1, 1>>, <<-1, 0>>,
                  <<-1, -1>>, <<0, -1>>, <<1, -1>>>>

Abs(n) == IF n < 0 THEN -n ELSE n

\* |m / 10^e| < 10^-10, for |m| < 10^9
BelowThreshold(m, e) ==
    IF e >= 10 THEN Abs(m) < 10 ^ (e - 10) ELSE m = 0

\* r is the integer at or next beyond m / 10^e going away from zero, for
\* m # 0 and |m| < 10^9: it has the sign of m, and |r| - 1 < |m / 10^e| <= |r|.
AwayFromZero(r, m, e) ==
    /\ r # 0
    /\ (r < 0) <=> (m < 0)
    /\ IF e <= 9
       THEN /\ (Abs(r) - 1) * (10 ^ e) < Abs(m)
            /\ Abs(m) <= Abs(r) * (10 ^ e)
       ELSE Abs(r) = 1

====
